---- MODULE Spec2Model ----
(***************************************************************************)
(* ODKPlatform.sync_data (src/src/surveydata/odkplatform.py) as a state    *)
(* machine: one ODKPlatform object, the ODK Central server it talks to,    *)
(* and the storage systems it writes to.  An invocation takes one step to  *)
(* read the cursor, one to fetch the table, one for each record of the     *)
(* loop, one to persist the cursor and one to tag the timezone; any call   *)
(* it makes to the server or to storage can raise, after the calls before  *)
(* it have taken effect.  Each invocation records the calls it completed   *)
(* in its trace.                                                           *)
(***************************************************************************)
EXTENDS Integers, Sequences, FiniteSets, TLC

\* ------------------------------------------------------------------ bounds
NumIds == 2          \* submissions the server can hold
MaxTime == 2         \* instants of the server's clock
MaxTouches == 2      \* submissions and edits the server receives
MaxTouchesPlain == 3 \* the same, where the only store supports no attachments
MaxBatch == 2        \* records of a response whose documents are flattened

Ids == 1..NumIds
Procs == {1}                           \* invocations of sync_data
Stores == {"primary", "separate"}      \* storage systems handed to sync_data

\* -------------------------------------------------------- timestamp strings
\* The server reports an instant as a fixed-width digit string; None and the
\* empty string are both falsy in Python.
Null == <<>>
Format(n) == <<n \div 10, n % 10>>
\* dateutil.parser.parse on such a string
parse(s) == s[1] * 10 + s[2]
\* Python truthiness of a string-or-None value
Truthy(s) == s # Null

\* --------------------------------------------------------------- constants
CURSOR_METADATA_ID == "__CURSOR__"
NoRec == [ver |-> 0]        \* no such submission on the server
NoRow == [ver |-> 0]        \* no such submission in storage

\* attachment listings the server can hold for a submission
AttLists == { <<>>,
              <<[name |-> "a", exists |-> FALSE], [name |-> "b", exists |-> TRUE]>> }

RECURSIVE CountExists(_)
CountExists(l) ==
    IF l = <<>> THEN 0
    ELSE (IF Head(l).exists THEN 1 ELSE 0) + CountExists(Tail(l))

VARIABLES
    client,        \* self.client: "client" once opened, "None" otherwise
    form_id,       \* self.form_id
    platform,      \* the server: id -> submission (or NoRec)
    now,           \* the server's clock
    touches,       \* submissions and edits received by the server so far
    subs,          \* primary storage: id -> stored row (or NoRow)
    atts,          \* store -> set of <<submission id, attachment name>>
    meta,          \* primary storage metadata under CURSOR_METADATA_ID
    tz,            \* primary storage data timezone
    supports,      \* store -> attachments_supported()
    attachment_storage,  \* the attachment_storage argument the caller passes
    prev,          \* history: the last invocation, if it failed and the server is unchanged
    call,          \* invocation -> locals of sync_data and its position
    response_data, \* the records of a get_table response, as nested documents
    df,            \* the DataFrame sync_data builds from response_data
    submissions_df \* the DataFrame get_submissions_df works on

vars == <<client, form_id, platform, now, touches, subs, atts, meta, tz, supports,
          attachment_storage, prev, call, response_data, df, submissions_df>>

\* no DataFrame yet
NoFrame == [stage |-> "none", columns |-> {}, rows |-> <<>>]

\* sync_data as modelled by its calls handles no document, and
\* get_submissions_df is not running
NoTables == response_data = <<>> /\ df = NoFrame /\ submissions_df = NoFrame

NoFlags == [no_attachments |-> FALSE, include_rejected |-> FALSE]

\* what a storage pair holds
Snapshot(s, a, m, t) == [subs |-> s, atts |-> a, meta |-> m, tz |-> t]
Empty == Snapshot([i \in Ids |-> NoRow], [s \in Stores |-> {}], Null, "unset")

\* no invocation to remember
NoPrev == [kind |-> "none", flags |-> NoFlags, expected |-> Empty]

\* attachments always go to the primary storage
ResolveToPrimary(no_attachments, given) ==
    IF no_attachments THEN "None" ELSE "primary"

\* lines 87-91
ResolveAttachmentStorage(no_attachments, given) ==
    IF no_attachments THEN "None"
    ELSE IF given = "None" THEN "primary"
    ELSE given

\* sync_data reads what can change on the server at get_table only (a
\* submission's attachments are fixed when it is submitted), so a change of the
\* server during an invocation is the same change made just before the next
\* invocation: the server's steps are taken between invocations.
Observable == \A p \in DOMAIN call : call[p].pc = "idle"

\* ------------------------------------------------------------- the server
\* the submissions and edits the server receives: one more is explored where
\* the primary storage is the only store and supports no attachments
Budget ==
    IF attachment_storage = "None" /\ ~supports["primary"]
    THEN MaxTouchesPlain ELSE MaxTouches

\* One row of the OData table, as flattened by sync_data.
Row(i) ==
    LET s == platform[i] IN
    [id |-> i, sub |-> s.sub, upd |-> s.upd, ver |-> s.ver, rej |-> s.rej,
     attp |-> CountExists(s.alist)]

\* A new submission arrives.
Submit(i) ==
    /\ Observable
    /\ platform[i] = NoRec
    /\ \A j \in Ids : j < i => platform[j] # NoRec
    /\ touches < Budget
    /\ touches' = touches + 1
    /\ \E al \in AttLists :
         platform' = [platform EXCEPT ![i] =
             [ver |-> 1, sub |-> Format(now), upd |-> Null, rej |-> FALSE, alist |-> al]]
    /\ prev' = NoPrev
    /\ UNCHANGED <<response_data, df, submissions_df, client, form_id, now, subs, atts, meta, tz, supports, attachment_storage, call>>

\* A submission is edited or reviewed: content changes, updatedAt is set.
Edit(i) ==
    /\ Observable
    /\ platform[i] # NoRec
    /\ touches < Budget
    /\ \E r \in BOOLEAN :
         platform' = [platform EXCEPT ![i] =
             [@ EXCEPT !.ver = @ + 1, !.upd = Format(now), !.rej = r]]
    /\ touches' = touches + 1
    /\ prev' = NoPrev
    /\ UNCHANGED <<response_data, df, submissions_df, client, form_id, now, subs, atts, meta, tz, supports, attachment_storage, call>>

\* Time passes.  Only the order of instants is ever compared, so the clock
\* moves on only from an instant at which the server has stamped something.
Tick ==
    /\ Observable
    /\ now < MaxTime
    /\ \E i \in Ids : /\ platform[i] # NoRec
                      /\ Format(now) \in {platform[i].sub, platform[i].upd}
    /\ now' = now + 1
    /\ UNCHANGED <<response_data, df, submissions_df, client, form_id, platform, touches, subs, atts, meta, tz, supports, attachment_storage, prev, call>>

\* ------------------------------------------------------------- sync_data
\* one call made to a collaborator, as recorded in the invocation's trace
Ev(op, store, id, name) == [op |-> op, store |-> store, id |-> id, name |-> name]

\* the locals of an invocation that has not started; goal is history: what one
\* cycle without failure makes of the storage the invocation began on
Idle == [pc |-> "idle", outcome |-> "none", failedAt |-> "none", flags |-> NoFlags,
         att_dest |-> "None", cursor |-> Null, filter |-> <<>>, batch |-> <<>>,
         idx |-> 0, newcursor |-> Null, result |-> <<>>, trace |-> <<>>,
         goal |-> Empty]

\* the keyword arguments that vary from call to call
Flags == [no_attachments : BOOLEAN, include_rejected : BOOLEAN]

\* the filter without its review-state condition
FilterKeepsRejected(cursor, include_rejected) ==
    IF Truthy(cursor) THEN <<[cond |-> "touched_ge", ts |-> cursor]>> ELSE <<>>

\* the filter without its cursor condition
FilterWithoutCursor(cursor, include_rejected) ==
    IF ~include_rejected THEN <<[cond |-> "not_rejected"]>> ELSE <<>>

\* lines 96-104: the filter, as the list of its AND-joined conditions
BuildFilter(cursor, include_rejected) ==
    (IF Truthy(cursor) THEN <<[cond |-> "touched_ge", ts |-> cursor]>> ELSE <<>>)
    \o (IF ~include_rejected THEN <<[cond |-> "not_rejected"]>> ELSE <<>>)

\* the server's evaluation of one condition on one row
Holds(c, r) ==
    IF c.cond = "touched_ge"
    THEN \/ (r.upd # Null /\ parse(r.upd) >= parse(c.ts))
         \/ parse(r.sub) >= parse(c.ts)
    ELSE ~r.rej

Matches(filter, r) == \A k \in 1..Len(filter) : Holds(filter[k], r)

RECURSIVE Perms(_)
Perms(S) ==
    IF S = {} THEN {<<>>}
    ELSE UNION {{<<x>> \o q : q \in Perms(S \ {x})} : x \in S}

\* the tables get_table can answer with: the matching rows, in any order
Tables(filter) ==
    Perms({Row(i) : i \in {j \in Ids : platform[j] # NoRec /\ Matches(filter, Row(j))}})

\* lines 138-141
LastTouched(r) == IF Truthy(r.upd) THEN r.upd ELSE r.sub

\* lines 130-132
InitialCandidate(batch) ==
    LET last == batch[Len(batch)] IN
    IF ~Truthy(last.upd) THEN last.sub ELSE last.upd

\* the candidate is never replaced
KeepLast(cand, lt) == cand

\* lines 145-147
Advance(cand, lt) == IF parse(lt) > parse(cand) THEN lt ELSE cand

\* Skip, forgetting to ask storage
SkipAtCursor(lt, cursor, present) == lt = cursor

\* no record is ever skipped
SkipNever(lt, cursor, present) == FALSE

\* line 153 (negated): the record is not written
Skip(lt, cursor, present) == ~(lt # cursor \/ ~present)

\* lines 155-156
WantAttachmentsUnseen(dest, r) == dest # "None" /\ supports[dest]

\* lines 155-156
WantAttachments(dest, r) ==
    /\ dest # "None"
    /\ supports[dest]
    /\ r.attp > 0

\* lines 161-173: the calls made for the listed attachments, in listing order
RECURSIVE AttCalls(_, _, _)
AttCalls(dest, id, l) ==
    IF l = <<>> THEN <<>>
    ELSE (IF Head(l).exists
          THEN <<Ev("get_attachment", "platform", id, Head(l).name),
                 Ev("store_attachment", dest, id, Head(l).name)>>
          ELSE <<>>) \o AttCalls(dest, id, Tail(l))

\* RecordCalls, writing the submission before its attachments
RecordCallsSubmissionFirst(c, r, present) ==
    LET lt == LastTouched(r)
        q == IF lt = c.cursor
             THEN <<Ev("query_submission", "primary", r.id, "")>> ELSE <<>>
    IN
    IF Skip(lt, c.cursor, present) THEN q
    ELSE q
         \o <<Ev("store_submission", "primary", r.id, "")>>
         \o (IF c.att_dest # "None"
             THEN <<Ev("attachments_supported", c.att_dest, r.id, "")>> ELSE <<>>)
         \o (IF WantAttachments(c.att_dest, r)
             THEN <<Ev("list_attachments", "platform", r.id, "")>>
                  \o AttCalls(c.att_dest, r.id, platform[r.id].alist)
             ELSE <<>>)

\* lines 153-177: the calls sync_data makes for record r, in order, given what
\* storage and the server answer (query_submission is asked only when the
\* record's last_touched equals the cursor: "or" short-circuits)
RecordCalls(c, r, present) ==
    LET lt == LastTouched(r)
        q == IF lt = c.cursor
             THEN <<Ev("query_submission", "primary", r.id, "")>> ELSE <<>>
    IN
    IF Skip(lt, c.cursor, present) THEN q
    ELSE q
         \o (IF c.att_dest # "None"
             THEN <<Ev("attachments_supported", c.att_dest, r.id, "")>> ELSE <<>>)
         \o (IF WantAttachments(c.att_dest, r)
             THEN <<Ev("list_attachments", "platform", r.id, "")>>
                  \o AttCalls(c.att_dest, r.id, platform[r.id].alist)
             ELSE <<>>)
         \o <<Ev("store_submission", "primary", r.id, "")>>

\* what the completed calls evs leave in storage
Stored(evs, op) == {k \in 1..Len(evs) : evs[k].op = op}

AttsAfter(a, evs) ==
    [s \in Stores |->
        a[s] \cup {<<evs[k].id, evs[k].name>> :
                        k \in {j \in Stored(evs, "store_attachment") : evs[j].store = s}}]

SubsAfter(s, evs, r) ==
    IF Stored(evs, "store_submission") # {} THEN [s EXCEPT ![r.id] = r] ELSE s

\* the id is reported whether or not the record was stored
ResultAlways(result, evs, r) == Append(result, r.id)

\* line 177
ResultAfter(result, evs, r) ==
    IF Stored(evs, "store_submission") # {} THEN Append(result, r.id) ELSE result

\* ------------------------------------------ a whole cycle, without failure
\* lines 136-177 for the records k.. of the batch, on the storage contents st
\* (st.meta holds the candidate cursor)
RECURSIVE LoopFrom(_, _, _)
LoopFrom(st, c, k) ==
    IF k > Len(c.batch) THEN st
    ELSE LET r == c.batch[k]
             evs == RecordCalls(c, r, st.subs[r.id] # NoRow)
         IN LoopFrom([st EXCEPT !.subs = SubsAfter(@, evs, r),
                                !.atts = AttsAfter(@, evs),
                                !.meta = Advance(@, LastTouched(r))], c, k + 1)

\* lines 87-186 when no call raises, started on the storage contents s0 with
\* flags f against the server as it is now
SingleCycle(s0, f) ==
    LET b == CHOOSE t \in Tables(BuildFilter(s0.meta, f.include_rejected)) : TRUE
        c == [Idle EXCEPT !.flags = f,
                          !.att_dest = ResolveAttachmentStorage(f.no_attachments,
                                                              attachment_storage),
                          !.cursor = s0.meta,
                          !.batch = b]
    IN IF b = <<>> THEN s0
       ELSE LET fin == LoopFrom([s0 EXCEPT !.meta = InitialCandidate(b)], c, 1)
            IN [fin EXCEPT !.tz = IF fin.meta # s0.meta THEN "utc" ELSE s0.tz]

\* an invocation returns or raises
Return(c, outcome, site) ==
    [c EXCEPT !.pc = "done", !.outcome = outcome, !.failedAt = site]

\* a check of the client alone
ClientMissing(cl, fid) == cl = "None"

\* line 83
NotInitialized(cl, fid) == cl = "None" \/ fid = ""

\* lines 82-94: the configuration check, the attachment destination, the cursor
\* (keep: whether the history field goal is recorded)
Begin(p, keep) ==
    /\ call[p].pc = "idle"
    /\ \E f \in Flags :
         /\ LET c == [Idle EXCEPT !.flags = f, !.goal = IF keep
                                                    THEN SingleCycle(Snapshot(subs, atts, meta, tz), f)
                                                    ELSE Empty] IN
            IF NotInitialized(client, form_id)
            THEN call' = [call EXCEPT ![p] = Return(c, "config_error", "config")]
            ELSE \/ call' = [call EXCEPT ![p] =
                        [c EXCEPT !.pc = "fetch",
                                  !.att_dest = ResolveAttachmentStorage(f.no_attachments,
                                                                      attachment_storage),
                                  !.cursor = meta,
                                  !.filter = BuildFilter(meta, f.include_rejected),
                                  !.trace = <<Ev("get_metadata", "primary", 0,
                                                 CURSOR_METADATA_ID)>>]]
                 \/ call' = [call EXCEPT ![p] = Return(c, "error", "get_metadata")]
         /\ prev' = IF f = prev.flags THEN prev ELSE NoPrev
    /\ UNCHANGED <<response_data, df, submissions_df, client, form_id, platform, now, touches, subs, atts, meta, tz, supports, attachment_storage>>

\* sync_data is called while no other invocation is running
StartWith(p, keep) ==
    /\ \A q \in Procs : call[q].pc = "idle"
    /\ Begin(p, keep)

Start(p) == StartWith(p, FALSE)

\* sync_data is called, whatever other invocations are doing
StartConcurrent(p) == Begin(p, FALSE)

\* lines 107-133: the table is fetched and flattened, the candidate initialised.
\* The client library's answer for an empty table is either falsy or an OData
\* document with an empty value list (truthy, and then line 130 raises KeyError).
Fetch(p) ==
    /\ call[p].pc = "fetch"
    /\ \E b \in Tables(call[p].filter) :
         LET c == [call[p] EXCEPT !.batch = b,
                     !.trace = Append(@, Ev("get_table", "platform", 0, ""))] IN
         IF b = <<>>
         THEN \/ call' = [call EXCEPT ![p] = Return(c, "ok", "none")]
              \/ call' = [call EXCEPT ![p] = Return(c, "error", "KeyError")]
         ELSE call' = [call EXCEPT ![p] =
                  [c EXCEPT !.pc = "loop", !.idx = 1,
                            !.newcursor = InitialCandidate(b)]]
    /\ UNCHANGED <<response_data, df, submissions_df, client, form_id, platform, now, touches, subs, atts, meta, tz, supports, attachment_storage, prev>>

\* lines 136-177: one iteration of the loop
Process(p) ==
    /\ call[p].pc = "loop"
    /\ call[p].idx <= Len(call[p].batch)
    /\ LET c == call[p]
           r == c.batch[c.idx]
           evs == RecordCalls(c, r, subs[r.id] # NoRow)
       IN /\ subs' = SubsAfter(subs, evs, r)
          /\ atts' = AttsAfter(atts, evs)
          /\ call' = [call EXCEPT ![p] =
                 [c EXCEPT !.newcursor = Advance(@, LastTouched(r)),
                           !.result = ResultAfter(@, evs, r),
                           !.trace = @ \o evs,
                           !.idx = @ + 1]]
    /\ UNCHANGED <<response_data, df, submissions_df, client, form_id, platform, now, touches, meta, tz, supports, attachment_storage, prev>>

\* FailRecord, undoing what the cycle has written before the exception leaves
FailRecordRollback(p) ==
    /\ call[p].pc = "loop"
    /\ call[p].idx <= Len(call[p].batch)
    /\ LET c == call[p]
           r == c.batch[c.idx]
           all == RecordCalls(c, r, subs[r.id] # NoRow)
       IN \E k \in 1..Len(all) :
            LET evs == SubSeq(all, 1, k - 1) IN
            /\ all[k].op # "attachments_supported"
            /\ subs' = [i \in Ids |->
                          IF \E n \in 1..Len(c.result) : c.result[n] = i
                          THEN NoRow ELSE subs[i]]
            /\ atts' = atts
            /\ call' = [call EXCEPT ![p] =
                   Return([c EXCEPT !.newcursor = Advance(@, LastTouched(r)),
                                    !.trace = @ \o evs],
                          "error", all[k].op)]
    /\ UNCHANGED <<response_data, df, submissions_df, client, form_id, platform, now, touches, meta, tz, supports, attachment_storage, prev>>

\* FailRecord, persisting the candidate cursor before the exception leaves
FailRecordEager(p) ==
    /\ call[p].pc = "loop"
    /\ call[p].idx <= Len(call[p].batch)
    /\ LET c == call[p]
           r == c.batch[c.idx]
           all == RecordCalls(c, r, subs[r.id] # NoRow)
       IN \E k \in 1..Len(all) :
            LET evs == SubSeq(all, 1, k - 1) IN
            /\ all[k].op # "attachments_supported"
            /\ subs' = SubsAfter(subs, evs, r)
            /\ atts' = AttsAfter(atts, evs)
            /\ meta' = c.newcursor
            /\ call' = [call EXCEPT ![p] =
                   Return([c EXCEPT !.newcursor = Advance(@, LastTouched(r)),
                                    !.trace = @ \o evs],
                          "error", all[k].op)]
    /\ UNCHANGED <<response_data, df, submissions_df, client, form_id, platform, now, touches, tz, supports, attachment_storage, prev>>

\* one iteration of the loop in which the k-th call raises: the calls before it
\* have taken effect, and nothing in sync_data catches the exception
FailRecord(p) ==
    /\ call[p].pc = "loop"
    /\ call[p].idx <= Len(call[p].batch)
    /\ LET c == call[p]
           r == c.batch[c.idx]
           all == RecordCalls(c, r, subs[r.id] # NoRow)
       IN \E k \in 1..Len(all) :
            LET evs == SubSeq(all, 1, k - 1) IN
            /\ all[k].op # "attachments_supported"
            /\ subs' = SubsAfter(subs, evs, r)
            /\ atts' = AttsAfter(atts, evs)
            /\ call' = [call EXCEPT ![p] =
                   Return([c EXCEPT !.newcursor = Advance(@, LastTouched(r)),
                                    !.trace = @ \o evs],
                          "error", all[k].op)]
    /\ UNCHANGED <<response_data, df, submissions_df, client, form_id, platform, now, touches, meta, tz, supports, attachment_storage, prev>>

\* LoopEnd, persisting the candidate whether or not it changed
LoopEndAlways(p) ==
    /\ call[p].pc = "loop"
    /\ call[p].idx > Len(call[p].batch)
    /\ LET c == call[p] IN
       /\ meta' = c.newcursor
       /\ call' = [call EXCEPT ![p] =
              [c EXCEPT !.pc = "tz",
                        !.trace = Append(@, Ev("store_metadata", "primary", 0,
                                               CURSOR_METADATA_ID))]]
    /\ UNCHANGED <<response_data, df, submissions_df, client, form_id, platform, now, touches, subs, atts, tz, supports, attachment_storage, prev>>

\* lines 180-181 and 186
LoopEnd(p) ==
    /\ call[p].pc = "loop"
    /\ call[p].idx > Len(call[p].batch)
    /\ LET c == call[p] IN
       IF c.newcursor # c.cursor
       THEN /\ meta' = c.newcursor
            /\ call' = [call EXCEPT ![p] =
                   [c EXCEPT !.pc = "tz",
                             !.trace = Append(@, Ev("store_metadata", "primary", 0,
                                                    CURSOR_METADATA_ID))]]
       ELSE /\ meta' = meta
            /\ call' = [call EXCEPT ![p] = Return(c, "ok", "none")]
    /\ UNCHANGED <<response_data, df, submissions_df, client, form_id, platform, now, touches, subs, atts, tz, supports, attachment_storage, prev>>

\* lines 184-186
SetTz(p) ==
    /\ call[p].pc = "tz"
    /\ tz' = "utc"
    /\ call' = [call EXCEPT ![p] =
           Return([call[p] EXCEPT !.trace = Append(@, Ev("set_data_timezone", "primary", 0, ""))],
                  "ok", "none")]
    /\ UNCHANGED <<response_data, df, submissions_df, client, form_id, platform, now, touches, subs, atts, meta, supports, attachment_storage, prev>>

\* get_table, store_metadata or set_data_timezone raises
FailCall(p) ==
    /\ \/ call[p].pc = "fetch"
          /\ call' = [call EXCEPT ![p] = Return(call[p], "error", "get_table")]
       \/ call[p].pc = "loop" /\ call[p].idx > Len(call[p].batch)
          /\ call[p].newcursor # call[p].cursor
          /\ call' = [call EXCEPT ![p] = Return(call[p], "error", "store_metadata")]
       \/ call[p].pc = "tz"
          /\ call' = [call EXCEPT ![p] = Return(call[p], "error", "set_data_timezone")]
    /\ UNCHANGED <<response_data, df, submissions_df, client, form_id, platform, now, touches, subs, atts, meta, tz, supports, attachment_storage, prev>>

\* the caller is done with what sync_data returned or raised
Forget(p) ==
    /\ call[p].pc = "done"
    /\ call' = [call EXCEPT ![p] = Idle]
    /\ prev' = NoPrev
    /\ UNCHANGED <<response_data, df, submissions_df, client, form_id, platform, now, touches, subs, atts, meta, tz, supports, attachment_storage>>

\* the calls among evs that write to storage
Writes(evs) ==
    {k \in 1..Len(evs) :
        evs[k].op \in {"store_submission", "store_attachment", "store_metadata"}}

\* Start, keeping history
StartHist(p) == StartWith(p, TRUE)

\* Forget, keeping history: an invocation that failed after it wrote leaves its
\* goal in prev
Remember(p) ==
    /\ call[p].pc = "done"
    /\ call' = [call EXCEPT ![p] = Idle]
    /\ prev' = LET c == call[p] IN
               IF c.outcome = "error" /\ Writes(c.trace) # {}
               THEN [kind |-> "failed", flags |-> c.flags,
                     expected |-> c.goal]
               ELSE NoPrev
    /\ UNCHANGED <<response_data, df, submissions_df, client, form_id, platform, now, touches, subs, atts, meta, tz, supports, attachment_storage>>

Init ==
    /\ client \in {"None", "client"}
    /\ form_id \in {"", "form"}
    /\ platform = [i \in Ids |-> NoRec]
    /\ now = 1
    /\ touches = 0
    /\ subs = [i \in Ids |-> NoRow]
    /\ atts = [s \in Stores |-> {}]
    /\ meta = Null
    /\ tz = "unset"
    /\ attachment_storage \in {"None", "separate"}
    /\ supports \in [Stores -> BOOLEAN]
    \* a store that is never the attachment destination is never asked
    /\ supports[IF attachment_storage = "None" THEN "separate" ELSE "primary"]
    /\ prev = NoPrev
    /\ call = [p \in Procs |-> Idle]
    /\ NoTables

Next ==
    \/ \E i \in Ids : Submit(i)
    \/ \E i \in Ids : Edit(i)
    \/ Tick
    \/ \E p \in Procs : Start(p)
    \/ \E p \in Procs : Fetch(p)
    \/ \E p \in Procs : Process(p)
    \/ \E p \in Procs : FailRecord(p)
    \/ \E p \in Procs : LoopEnd(p)
    \/ \E p \in Procs : SetTz(p)
    \/ \E p \in Procs : FailCall(p)
    \/ \E p \in Procs : Forget(p)

Spec == Init /\ [][Next]_vars

\* the same program, with the history of failed invocations kept
NextHist ==
    \/ \E i \in Ids : Submit(i)
    \/ \E i \in Ids : Edit(i)
    \/ Tick
    \/ \E p \in Procs : StartHist(p)
    \/ \E p \in Procs : Fetch(p)
    \/ \E p \in Procs : Process(p)
    \/ \E p \in Procs : FailRecord(p)
    \/ \E p \in Procs : LoopEnd(p)
    \/ \E p \in Procs : SetTz(p)
    \/ \E p \in Procs : FailCall(p)
    \/ \E p \in Procs : Remember(p)

\* ... of an object that can sync, to a destination that stores attachments
InitHist ==
    /\ Init
    /\ client # "None" /\ form_id # ""
    /\ supports[ResolveAttachmentStorage(FALSE, attachment_storage)]

SpecHist == InitHist /\ [][NextHist]_vars

\* two callers, each invoking sync_data on the same object and storage
Workers == {1, 2}

\* ... of an object that can sync, with one storage that takes no attachments
InitConcurrent ==
    /\ client = "client"
    /\ form_id = "form"
    /\ platform = [i \in Ids |-> NoRec]
    /\ now = 1
    /\ touches = 0
    /\ subs = [i \in Ids |-> NoRow]
    /\ atts = [s \in Stores |-> {}]
    /\ meta = Null
    /\ tz = "unset"
    /\ attachment_storage = "None"
    /\ supports = [s \in Stores |-> s = "separate"]
    /\ prev = NoPrev
    /\ call = [p \in Workers |-> Idle]
    /\ NoTables

\* nothing has been synced yet
Fresh == meta = Null /\ \A i \in Ids : subs[i] = NoRow

\* the server is filled before the first sync and left alone afterwards;
\* each caller invokes sync_data once and the invocations may overlap (the
\* second caller is the one that finds the first running or done);
\* attachments are not asked for; no call raises
NextConcurrent ==
    \/ \E i \in Ids : Fresh /\ Submit(i)
    \/ \E i \in Ids : Fresh /\ Edit(i)
    \/ Fresh /\ Tick
    \/ \E p \in Workers :
          /\ \A q \in Workers : q < p => call[q].pc # "idle"
          /\ StartConcurrent(p)
          /\ call'[p].flags.no_attachments
    \/ \E p \in Workers : Fetch(p)
    \/ \E p \in Workers : Process(p)
    \/ \E p \in Workers : LoopEnd(p)
    \/ \E p \in Workers : SetTz(p)

SpecConcurrent == InitConcurrent /\ [][NextConcurrent]_vars

\* ------------------------------------- the DataFrame of lines 111-127
ID_FIELD == "KEY"
ID_FIELD_API == "__id"
REPEAT_GROUP_COLUMN_SUFFIX == "@odata.navigationLink"

\* what pandas puts where a record has no value for a column
NaN == "NaN"

\* A key of a document is a name, possibly followed by the navigation-link
\* suffix; a column name is the sequence of the keys that flatten joins
\* with "/" (no key contains "/").
Key(n) == [name |-> n, suffix |-> ""]
Link(n) == [name |-> n, suffix |-> REPEAT_GROUP_COLUMN_SUFFIX]

\* A document is a sequence of entries; an entry holds a scalar (or an empty
\* list, which flatten leaves as a value) or a nested dict or list, a list
\* being keyed by its indices as flatten does.
Leaf(k, v) == [key |-> k, leaf |-> TRUE, val |-> v, kids |-> <<>>]
Nested(k, kids) == [key |-> k, leaf |-> FALSE, val |-> "", kids |-> kids]

\* an instance of a repeat group, as expand="*" returns it
Instance(n, rid, v) == Nested(Key(n), <<Leaf(Key(ID_FIELD_API), rid), Leaf(Key("q"), v)>>)

\* the documents a response is made of
Docs ==
    { <<Leaf(Key(ID_FIELD_API), "x"), Nested(Key("a"), <<Leaf(Key("b"), "1")>>)>>,
      <<Leaf(Key(ID_FIELD_API), "y"), Nested(Key("a"), <<Leaf(Key("b"), "2")>>),
        Leaf(Key("c"), "3")>>,
      <<Leaf(Key(ID_FIELD_API), "z"), Nested(Key("a"), <<Leaf(Key("b"), "1")>>),
        Leaf(Link("rg"), "link"),
        Nested(Key("rg"), <<Instance("0", "r1", "5")>>)>>,
      <<Leaf(Key(ID_FIELD_API), "w"),
        Leaf(Link("rg"), "link"),
        Nested(Key("rg"), <<Instance("0", "r1", "5"), Instance("1", "r2", "6")>>)>>,
      <<Leaf(Key(ID_FIELD_API), "v"),
        Leaf(Link("rg"), "link"),
        Leaf(Key("rg"), "[]")>>,
      <<Leaf(Key(ID_FIELD_API), "u"),
        Nested(Key("g"),
               <<Leaf(Link("rg"), "link"),
                 Nested(Key("rg"),
                        <<Nested(Key("0"),
                                 <<Leaf(Key(ID_FIELD_API), "r1"),
                                   Leaf(Key("q"), "7"),
                                   Leaf(Link("in"), "link"),
                                   Nested(Key("in"), <<Instance("0", "i1", "8")>>)>>)>>)>>)>> }

\* flatten_json.flatten(x, "/"): the leaves of x with their paths
RECURSIVE FlattenInto(_, _)
FlattenInto(entries, prefix) ==
    IF entries = <<>> THEN {}
    ELSE LET e == Head(entries)
             path == Append(prefix, e.key)
         IN (IF e.leaf THEN {<<path, e.val>>} ELSE FlattenInto(e.kids, path))
            \cup FlattenInto(Tail(entries), prefix)

flatten(x) ==
    LET leaves == FlattenInto(x, <<>>)
    IN [c \in {l[1] : l \in leaves} |-> (CHOOSE l \in leaves : l[1] = c)[2]]

\* line 112: pd.DataFrame(list of dicts): a column for every key of any dict,
\* NaN where a dict has no such key
DataFrame(dicts) ==
    LET columns == UNION {DOMAIN dicts[k] : k \in 1..Len(dicts)}
    IN [stage |-> "built",
        columns |-> columns,
        rows |-> [k \in 1..Len(dicts) |->
                    [c \in columns |-> IF c \in DOMAIN dicts[k] THEN dicts[k][c] ELSE NaN]]]

\* line 115: df.rename(columns={from: to})
Rename(frame, from, to) ==
    LET old(c) == IF c = <<Key(to)>> /\ <<Key(from)>> \in frame.columns
                  THEN <<Key(from)>> ELSE c
        columns == {IF c = <<Key(from)>> THEN <<Key(to)>> ELSE c : c \in frame.columns}
    IN [stage |-> "renamed",
        columns |-> columns,
        rows |-> [k \in 1..Len(frame.rows) |-> [c \in columns |-> frame.rows[k][old(c)]]]]

\* df.drop(columns=cs)
Drop(frame, cs) ==
    [frame EXCEPT !.columns = @ \ cs,
                  !.rows = [k \in 1..Len(frame.rows) |->
                               [c \in frame.columns \ cs |-> frame.rows[k][c]]]]

\* col.endswith(REPEAT_GROUP_COLUMN_SUFFIX)
IsRepeatGroupCol(col) == col[Len(col)].suffix = REPEAT_GROUP_COLUMN_SUFFIX

\* line 123: repeat_group_col[:-len(REPEAT_GROUP_COLUMN_SUFFIX)]
RepeatGroup(col) == [col EXCEPT ![Len(col)] = Key(@.name)]

\* every column under the group
IsUnderGroup(col, repeat_group) ==
    /\ Len(col) > Len(repeat_group)
    /\ SubSeq(col, 1, Len(repeat_group)) = repeat_group

\* line 124: col.startswith(f"{repeat_group}/") and col.endswith("/__id")
IsIdCol(col, repeat_group) ==
    /\ Len(col) > Len(repeat_group)
    /\ SubSeq(col, 1, Len(repeat_group)) = repeat_group
    /\ col[Len(col)] = Key(ID_FIELD_API)

\* lines 118-127: the navigation columns are dropped, and for each of them the
\* __id columns under its group
DropRepeatGroupCols(frame) ==
    LET repeat_group_cols == {c \in frame.columns : IsRepeatGroupCol(c)}
        id_cols == {c \in frame.columns \ repeat_group_cols :
                       \E g \in repeat_group_cols : IsIdCol(c, RepeatGroup(g))}
    IN [Drop(frame, repeat_group_cols \cup id_cols) EXCEPT !.stage = "pruned"]

\* the sync variables stay as they are while a table is worked on
syncvars == <<client, form_id, platform, now, touches, subs, atts, meta, tz, supports,
              attachment_storage, prev, call>>

\* line 112
BuildFrame ==
    /\ df.stage = "none"
    /\ df' = DataFrame([k \in 1..Len(response_data) |-> flatten(response_data[k])])
    /\ UNCHANGED <<syncvars, response_data, submissions_df>>

\* line 115
RenameId ==
    /\ df.stage = "built"
    /\ df' = Rename(df, ID_FIELD_API, ID_FIELD)
    /\ UNCHANGED <<syncvars, response_data, submissions_df>>

\* lines 118-127; the rows of df are then what the loop hands to
\* store_submission (submission.to_dict(), line 176)
DropRepeatGroups ==
    /\ df.stage = "renamed"
    /\ df' = DropRepeatGroupCols(df)
    /\ UNCHANGED <<syncvars, response_data, submissions_df>>

\* responses of one to MaxBatch documents
RECURSIVE Batches(_)
Batches(n) ==
    IF n = 0 THEN {<<>>}
    ELSE LET shorter == Batches(n - 1)
         IN shorter \cup {Append(b, d) : b \in {t \in shorter : Len(t) = n - 1}, d \in Docs}

\* nothing is synced
Unused ==
    /\ client = "None"
    /\ form_id = ""
    /\ platform = [i \in Ids |-> NoRec]
    /\ now = 1
    /\ touches = 0
    /\ atts = [s \in Stores |-> {}]
    /\ meta = Null
    /\ tz = "unset"
    /\ attachment_storage = "None"
    /\ supports = [s \in Stores |-> TRUE]
    /\ prev = NoPrev
    /\ call = [p \in Procs |-> Idle]

InitFrame ==
    /\ Unused
    /\ subs = [i \in Ids |-> NoRow]
    /\ response_data \in Batches(MaxBatch) \ {<<>>}
    /\ df = NoFrame
    /\ submissions_df = NoFrame

NextFrame == BuildFrame \/ RenameId \/ DropRepeatGroups

SpecFrame == InitFrame /\ [][NextFrame]_vars

\* ------------------------------------- get_submissions_df (lines 188-206)
\* the rows storage can hold for submission i
StoredRows(i) ==
    {[id |-> i, sub |-> Format(t), upd |-> Null, ver |-> v, rej |-> r, attp |-> 0] :
        t \in 1..MaxTime, v \in 1..MaxTouches, r \in BOOLEAN}

\* the columns of a table of stored rows: the id under KEY, and the rest
StoredColumns == {ID_FIELD, "fields"}

\* line 200: storage.get_submissions_df(), a table with one row per stored
\* submission in the order the backend lists them; a table without rows has
\* the columns the backend gives it, possibly none
ReadStorage ==
    /\ submissions_df.stage = "none"
    /\ LET held == {subs[i] : i \in {j \in Ids : subs[j] # NoRow}} IN
       \E rows \in Perms(held) :
       \E columns \in (IF held = {} THEN {{}, StoredColumns} ELSE {StoredColumns}) :
           submissions_df' = [stage |-> "read", columns |-> columns, rows |-> rows]
    /\ UNCHANGED <<syncvars, response_data, df>>

\* line 203: set_index([ID_FIELD], inplace=True) raises KeyError when the
\* table has no such column
SetIndex ==
    /\ submissions_df.stage = "read"
    /\ submissions_df' =
          IF ID_FIELD \in submissions_df.columns
          THEN [submissions_df EXCEPT !.stage = "indexed", !.columns = @ \ {ID_FIELD}]
          ELSE [submissions_df EXCEPT !.stage = "KeyError"]
    /\ UNCHANGED <<syncvars, response_data, df>>

\* line 204: sort_index(), and line 206
SortIndex ==
    /\ submissions_df.stage = "indexed"
    /\ LET rows == submissions_df.rows
           sorted == CHOOSE s \in Perms({rows[k] : k \in 1..Len(rows)}) :
                         \A j, k \in 1..Len(s) : j < k => s[j].id <= s[k].id
       IN submissions_df' = [submissions_df EXCEPT !.stage = "sorted", !.rows = sorted]
    /\ UNCHANGED <<syncvars, response_data, df>>

\* any storage content
InitTable ==
    /\ Unused
    /\ subs \in {f \in [Ids -> {NoRow} \cup UNION {StoredRows(i) : i \in Ids}] :
                    \A i \in Ids : f[i] = NoRow \/ f[i].id = i}
    /\ NoTables

NextTable == ReadStorage \/ SetIndex \/ SortIndex

SpecTable == InitTable /\ [][NextTable]_vars

\* ------------------------------------------------- one call after another
\* Forget, keeping what a successful invocation left behind: its flags, the
\* storage it returned on, and whether the table it fetched was empty
RememberOk(p) ==
    /\ call[p].pc = "done"
    /\ call' = [call EXCEPT ![p] = Idle]
    /\ prev' = LET c == call[p] IN
               IF c.outcome = "ok"
               THEN [kind |-> IF c.batch = <<>> THEN "ok_empty" ELSE "ok",
                     flags |-> c.flags,
                     expected |-> Snapshot(subs, atts, meta, tz)]
               ELSE NoPrev
    /\ UNCHANGED <<response_data, df, submissions_df, client, form_id, platform, now, touches, subs, atts, meta, tz, supports, attachment_storage>>

\* lines 107-133, by a client library that answers an empty table the way it
\* did in the invocation before
FetchAgain(p) ==
    /\ Fetch(p)
    /\ prev.kind = "ok_empty" => call'[p].failedAt # "KeyError"

NextResync ==
    \/ \E i \in Ids : Submit(i)
    \/ \E i \in Ids : Edit(i)
    \/ Tick
    \/ \E p \in Procs : Start(p)
    \/ \E p \in Procs : FetchAgain(p)
    \/ \E p \in Procs : Process(p)
    \/ \E p \in Procs : FailRecord(p)
    \/ \E p \in Procs : LoopEnd(p)
    \/ \E p \in Procs : SetTz(p)
    \/ \E p \in Procs : FailCall(p)
    \/ \E p \in Procs : RememberOk(p)

\* ... of an object that can sync, to a destination that stores attachments
SpecResync == InitHist /\ [][NextResync]_vars

\* ------------------------------------------ a server with strict timestamps
\* the server has stamped nothing at the present instant, so what it stamps
\* next is later than everything it stamped before
StrictStamp ==
    \A i \in Ids :
        platform[i] # NoRec => Format(now) \notin {platform[i].sub, platform[i].upd}

\* the same program called with include_rejected = true, one call after the
\* other, against a server whose timestamps strictly increase
NextStrict ==
    \/ \E i \in Ids : StrictStamp /\ Submit(i)
    \/ \E i \in Ids : StrictStamp /\ Edit(i)
    \/ Tick
    \/ \E p \in Procs : Start(p) /\ call'[p].flags.include_rejected
    \/ \E p \in Procs : Fetch(p)
    \/ \E p \in Procs : Process(p)
    \/ \E p \in Procs : FailRecord(p)
    \/ \E p \in Procs : LoopEnd(p)
    \/ \E p \in Procs : SetTz(p)
    \/ \E p \in Procs : FailCall(p)
    \/ \E p \in Procs : Forget(p)

SpecStrict == Init /\ [][NextStrict]_vars

\* ------------------------------------------------------------ properties
\* the calls an invocation completed in its step from the current state
NewCalls(p) == SubSeq(call'[p].trace, Len(call[p].trace) + 1, Len(call'[p].trace))

\* the ops among a sequence of calls
Ops(evs) == {evs[k].op : k \in 1..Len(evs)}

\* the invocation p has just completed one iteration of its loop
Iterated(p) ==
    /\ call[p].pc = "loop"
    /\ call'[p].pc = "loop"
    /\ call'[p].idx = call[p].idx + 1

\* C1: in every iteration of the loop the record is skipped (nothing fetched
\* for it, nothing stored, its id not in the result) exactly when its
\* last_touched equals the cursor read at the start of the cycle and storage
\* holds its id; otherwise it is stored and its id appended to the result.
C1_DedupRule ==
    [][\A p \in Procs : Iterated(p) =>
          LET c == call[p]
              r == c.batch[c.idx]
              lt == IF r.upd # Null THEN r.upd ELSE r.sub
          IN IF lt = c.cursor /\ subs[r.id] # NoRow
             THEN /\ Ops(NewCalls(p)) \subseteq {"query_submission"}
                  /\ subs' = subs /\ atts' = atts
                  /\ call'[p].result = c.result
             ELSE /\ "store_submission" \in Ops(NewCalls(p))
                  /\ subs'[r.id] = r
                  /\ call'[p].result = Append(c.result, r.id)]_vars

\* C1 witness: a completed cycle in which one record at the cursor was skipped
\* and another record at the cursor, not yet in storage, was written
C1_Witness ==
    \E p \in Procs :
        /\ call[p].pc = "done" /\ call[p].outcome = "ok"
        /\ \E j, k \in 1..Len(call[p].batch) :
              LET b == call[p].batch
                  ids == {call[p].result[n] : n \in 1..Len(call[p].result)} IN
              /\ LastTouched(b[j]) = call[p].cursor /\ b[j].id \notin ids
              /\ LastTouched(b[k]) = call[p].cursor /\ b[k].id \in ids

\* C2: after a successful cycle over a non-empty batch the candidate is the
\* last_touched (updatedAt, or submissionDate when that is absent) of some
\* record of the batch, no record of the batch has a later last_touched, and
\* the stored cursor is that candidate; while the cursor is being persisted
\* its value is the last_touched of a record of this cycle's batch.
C2_CursorIsBatchMax ==
    \A p \in Procs :
        LET c == call[p]
            lts == {IF c.batch[k].upd # Null THEN c.batch[k].upd ELSE c.batch[k].sub :
                        k \in 1..Len(c.batch)}
        IN /\ (c.pc = "done" /\ c.outcome = "ok" /\ c.batch # <<>>) =>
                /\ c.newcursor \in lts
                /\ \A t \in lts : parse(t) <= parse(c.newcursor)
                /\ meta = c.newcursor
           /\ c.pc = "tz" => meta \in lts /\ meta = c.newcursor

\* C2 witness: a successful cycle whose batch came out of order (the first
\* record touched after the last one) and that moved the cursor
C2_Witness ==
    \E p \in Procs :
        LET c == call[p] IN
        /\ c.pc = "done" /\ c.outcome = "ok" /\ Len(c.batch) > 1
        /\ parse(LastTouched(c.batch[1])) > parse(LastTouched(c.batch[Len(c.batch)]))
        /\ c.newcursor # c.cursor

\* C3: when get_table, the attachment list, an attachment download,
\* store_attachment or store_submission raised, the invocation ended with the
\* error, the stored cursor is the one read at the start of the cycle, neither
\* store_metadata nor set_data_timezone was called, and everything the cycle
\* stored before the exception is in storage.
C3_FailureKeepsCursorAndWrites ==
    \A p \in Procs :
        LET c == call[p] IN
        (c.pc = "done" /\ c.failedAt \in {"get_table", "list_attachments", "get_attachment",
                                          "store_attachment", "store_submission"}) =>
            /\ c.outcome = "error"
            /\ meta = c.cursor
            /\ Ops(c.trace) \cap {"store_metadata", "set_data_timezone"} = {}
            /\ \A k \in 1..Len(c.trace) :
                  /\ c.trace[k].op = "store_submission" =>
                        \E j \in 1..Len(c.batch) :
                            c.batch[j].id = c.trace[k].id /\ subs[c.trace[k].id] = c.batch[j]
                  /\ c.trace[k].op = "store_attachment" =>
                        <<c.trace[k].id, c.trace[k].name>> \in atts[c.trace[k].store]

\* C3 witness: store_submission raised after the cycle had stored a submission
\* and an attachment and seen a last_touched later than the cursor
C3_Witness ==
    \E p \in Procs :
        LET c == call[p] IN
        /\ c.pc = "done" /\ c.failedAt = "store_submission"
        /\ {"store_submission", "store_attachment"} \subseteq Ops(c.trace)
        /\ c.newcursor # c.cursor

\* C4: a cycle whose fetch returned no record ends normally with an empty
\* result, the cursor unchanged and nothing written.
C4_EmptyBatchReturnsEmpty ==
    \A p \in Procs :
        LET c == call[p] IN
        (c.pc = "done" /\ "get_table" \in Ops(c.trace) /\ c.batch = <<>>) =>
            /\ c.outcome = "ok"
            /\ c.result = <<>>
            /\ meta = c.cursor
            /\ Writes(c.trace) = {}

\* C5: after a successful cycle storage holds every record of the batch with
\* the content fetched in that cycle.
C5_BatchInStorage ==
    \A p \in Procs :
        LET c == call[p] IN
        (c.pc = "done" /\ c.outcome = "ok") =>
            \A k \in 1..Len(c.batch) : subs[c.batch[k].id] = c.batch[k]

\* C6: the stored cursor changes only by a store_metadata call, and the value
\* written is, as a parsed instant, not earlier than the value it replaces.
C6_CursorNeverDecreases ==
    [][meta' # meta =>
          /\ \E p \in Procs : Ops(NewCalls(p)) = {"store_metadata"}
          /\ meta' # Null
          /\ meta # Null => parse(meta') >= parse(meta)]_vars

\* C6 witness: a cycle that started from a stored cursor has just replaced it
\* by a later one
C6_Witness ==
    \E p \in Procs :
        /\ call[p].pc = "tz"
        /\ call[p].cursor # Null
        /\ parse(meta) > parse(call[p].cursor)

\* C7: an invocation on an object without client or with an empty form id
\* ends with the configuration error in its first step, having called neither
\* storage nor the platform, and storage and cursor are as before.
C7_ConfigErrorFirst ==
    [][\A p \in Procs :
          (call[p].pc = "idle" /\ call'[p].pc # "idle"
           /\ (client = "None" \/ form_id = "")) =>
              /\ call'[p].pc = "done" /\ call'[p].outcome = "config_error"
              /\ call'[p].trace = <<>>
              /\ UNCHANGED <<subs, atts, meta, tz>>]_vars

\* C7 witness: the configuration error of an object that has a client but an
\* empty form id
C7_Witness ==
    \E p \in Procs :
        /\ call[p].pc = "done" /\ call[p].outcome = "config_error"
        /\ client # "None" /\ form_id = ""

\* the destination sync_data resolves when attachments are wanted
Destination == IF attachment_storage = "None" THEN "primary" ELSE attachment_storage

\* the calls that fetch or store attachments
AttachmentOps == {"list_attachments", "get_attachment", "store_attachment"}

\* C8: in every iteration, completed or cut short by an exception, nothing is
\* listed, downloaded or stored as attachment when no_attachments is set, when
\* the destination does not support attachments, when the record's
\* attachmentsPresent is zero, or when the record is skipped by the dedup rule;
\* and every store_attachment is for a listed attachment of this record
\* whose exists flag is true, and only those reach attachment storage.
C8_AttachmentSkipConditions ==
    [][\A p \in Procs :
          (call[p].pc = "loop" /\ call[p].idx <= Len(call[p].batch)
           /\ call'[p] # call[p]) =>
              LET c == call[p]
                  r == c.batch[c.idx]
                  lt == IF r.upd # Null THEN r.upd ELSE r.sub
                  new == NewCalls(p)
                  listed == platform[r.id].alist
              IN /\ (\/ c.flags.no_attachments
                      \/ ~supports[Destination]
                      \/ r.attp = 0
                      \/ (lt = c.cursor /\ subs[r.id] # NoRow)) =>
                        Ops(new) \cap AttachmentOps = {} /\ atts' = atts
                 /\ \A k \in 1..Len(new) :
                        new[k].op = "store_attachment" =>
                            /\ new[k].id = r.id /\ new[k].store = Destination
                            /\ \E n \in 1..Len(listed) :
                                  listed[n].name = new[k].name /\ listed[n].exists
                 /\ \A s \in Stores :
                        atts'[s] \ atts[s] \subseteq
                            {<<new[k].id, new[k].name>> :
                                k \in {j \in 1..Len(new) :
                                          new[j].op = "store_attachment" /\ new[j].store = s}}]_vars

\* C8 witness: a completed cycle that stored an attachment of one record,
\* left the listed attachment that does not exist alone, and fetched nothing
\* for another record of the batch
C8_Witness ==
    \E p \in Procs :
        LET c == call[p] IN
        /\ c.pc = "done" /\ c.outcome = "ok"
        /\ \E k \in 1..Len(c.trace) : c.trace[k].op = "store_attachment"
        /\ \A k \in 1..Len(c.trace) : c.trace[k].name # "a"
        /\ \E j \in 1..Len(c.batch) :
              \A k \in 1..Len(c.trace) :
                  c.trace[k].op \in AttachmentOps => c.trace[k].id # c.batch[j].id

\* a completed store_submission call
IsStoreSubmission(e) == e.op = "store_submission"

\* C9: the result is the sequence of ids of the store_submission calls the
\* cycle completed, in that order, which is the order of the batch; no id
\* occurs twice; and a successful first run (no cursor) returns the ids of the
\* whole batch in fetch order.
C9_ResultIsStoredIds ==
    \A p \in Procs :
        LET c == call[p]
            st == SelectSeq(c.trace, IsStoreSubmission)
            pos(i) == CHOOSE k \in 1..Len(c.batch) : c.batch[k].id = i
        IN /\ Len(c.result) = Len(st)
           /\ \A n \in 1..Len(st) : c.result[n] = st[n].id
           /\ \A m, n \in 1..Len(c.result) :
                 m < n => /\ c.result[m] # c.result[n]
                          /\ pos(c.result[m]) < pos(c.result[n])
           /\ (c.pc = "done" /\ c.outcome = "ok" /\ c.cursor = Null) =>
                 c.result = [k \in 1..Len(c.batch) |-> c.batch[k].id]

\* C9 witness: a successful cycle over two records that skipped one, stored
\* the other and returned exactly that id
C9_Witness ==
    \E p \in Procs :
        LET c == call[p] IN
        /\ c.pc = "done" /\ c.outcome = "ok"
        /\ Len(c.batch) = 2 /\ Len(c.result) = 1
        /\ c.result[1] = c.batch[2].id

\* C10 as claimed: a successful cycle that follows a cycle which failed after
\* it wrote, with the same flags and the server unchanged in between, leaves
\* storage (submissions, attachments, cursor and the timezone tag) as one
\* successful cycle started where the failed one started would have left it.
C10_ConvergesEntirely ==
    \A p \in Procs :
        (call[p].pc = "done" /\ call[p].outcome = "ok" /\ prev.kind = "failed") =>
            Snapshot(subs, atts, meta, tz) = prev.expected

\* C10, amended: such a cycle leaves the submissions, the attachments and the
\* cursor that one successful cycle would have left; the timezone tag too,
\* unless the failed cycle had already persisted the cursor (set_data_timezone
\* raised), and then the successful cycle writes nothing and tags nothing.
C10_ConvergenceAfterFailure ==
    \A p \in Procs :
        LET c == call[p] IN
        (c.pc = "done" /\ c.outcome = "ok" /\ prev.kind = "failed") =>
            /\ subs = prev.expected.subs
            /\ atts = prev.expected.atts
            /\ meta = prev.expected.meta
            /\ \/ tz = prev.expected.tz
               \/ /\ c.cursor = prev.expected.meta
                  /\ Writes(c.trace) = {}
                  /\ "set_data_timezone" \notin Ops(c.trace)

\* C10 witness: such a successful cycle, after a failed one that had written
\* a record and seen a later last_touched than the cursor it started from
C10_Witness ==
    \E p \in Procs :
        /\ call[p].pc = "done" /\ call[p].outcome = "ok" /\ prev.kind = "failed"
        /\ Len(call[p].batch) > 1
        /\ call[p].cursor # Null
        /\ meta # call[p].cursor

\* C11: once the cursor is read, the filter has the cursor condition exactly
\* when a cursor exists and the review-state condition exactly when
\* include_rejected is false (so it is empty with no cursor and
\* include_rejected); it selects a submission of the server iff (there is no
\* cursor, or updatedAt >= cursor, or submissionDate >= cursor) and
\* (include_rejected, or the submission is not rejected); and the batch
\* fetched with it holds exactly the submissions so selected.
C11_FilterSelects ==
    \A p \in Procs :
        LET c == call[p]
            selected(i) ==
                /\ \/ c.cursor = Null
                   \/ (platform[i].upd # Null /\ parse(platform[i].upd) >= parse(c.cursor))
                   \/ parse(platform[i].sub) >= parse(c.cursor)
                /\ (c.flags.include_rejected \/ ~platform[i].rej)
            held == {i \in Ids : platform[i] # NoRec}
        IN "get_metadata" \in Ops(c.trace) =>
            /\ Len(c.filter) = (IF c.cursor # Null THEN 1 ELSE 0)
                                + (IF c.flags.include_rejected THEN 0 ELSE 1)
            /\ (c.cursor = Null /\ c.flags.include_rejected) => c.filter = <<>>
            /\ \A i \in held : Matches(c.filter, Row(i)) <=> selected(i)
            /\ "get_table" \in Ops(c.trace) =>
                  {c.batch[k].id : k \in 1..Len(c.batch)} = {i \in held : selected(i)}

\* C11 witness: a batch fetched with both conditions in the filter, which
\* left out a rejected submission touched since the cursor
C11_Witness ==
    \E p \in Procs :
        LET c == call[p]
            got == {c.batch[k].id : k \in 1..Len(c.batch)}
        IN /\ "get_table" \in Ops(c.trace) /\ Len(c.filter) = 2
           /\ \E i \in Ids \ got :
                 platform[i] # NoRec /\ platform[i].rej
                 /\ parse(LastTouched(Row(i))) >= parse(c.cursor)

\* C12: every store_attachment of a cycle goes to attachment_storage when it
\* is given, to the primary storage when it is not, and never happens with
\* no_attachments; attachments_supported is asked of that same store, for
\* every record the cycle writes; no other store ever holds an attachment;
\* submissions, the cursor and the timezone tag go to the primary storage.
C12_AttachmentDestination ==
    /\ \A s \in Stores \ {Destination} : atts[s] = {}
    /\ \A p \in Procs :
          LET c == call[p] IN
          \A k \in 1..Len(c.trace) :
              LET e == c.trace[k] IN
              /\ e.op \in {"store_attachment", "attachments_supported"} =>
                    ~c.flags.no_attachments /\ e.store = Destination
              /\ (e.op = "store_submission" /\ ~c.flags.no_attachments) =>
                    \E j \in 1..(k - 1) :
                        /\ c.trace[j].op = "attachments_supported"
                        /\ c.trace[j].id = e.id
                        /\ c.trace[j].store = Destination
              /\ e.op \in {"get_metadata", "query_submission", "store_submission",
                            "store_metadata", "set_data_timezone"} =>
                    e.store = "primary"

\* C12 witness: a cycle without attachment_storage stored an attachment in the
\* primary storage
C12_Witness ==
    \E p \in Procs :
        /\ attachment_storage = "None"
        /\ \E k \in 1..Len(call[p].trace) :
              call[p].trace[k].op = "store_attachment"
              /\ call[p].trace[k].store = "primary"
        /\ call[p].pc = "done" /\ call[p].outcome = "ok"

\* C13: with two invocations running against the same storage, the stored
\* cursor moves backwards only under a store_metadata of an invocation that
\* read the cursor before the other invocation wrote it (so never when the
\* invocations run one after the other); the witness shows that this happens.
C13_BackwardsOnlyWhenOverlapping ==
    [][(meta # Null /\ meta' # Null /\ parse(meta') < parse(meta)) =>
          \E p \in Workers :
              /\ Ops(NewCalls(p)) = {"store_metadata"}
              /\ call[p].cursor # meta
              /\ \E q \in Workers \ {p} :
                    "store_metadata" \in Ops(call[q].trace) /\ call[q].newcursor = meta]_vars

\* C13 witness: both invocations read the absent cursor, both returned
\* normally, and the cursor they left is earlier than the one the first of
\* them to finish had stored
C13_Witness ==
    \E p, q \in Workers :
        /\ call[p].pc = "done" /\ call[p].outcome = "ok"
        /\ call[q].pc = "done" /\ call[q].outcome = "ok"
        /\ call[p].cursor = Null /\ call[q].cursor = Null
        /\ "store_metadata" \in Ops(call[p].trace)
        /\ "store_metadata" \in Ops(call[q].trace)
        /\ meta = call[q].newcursor
        /\ parse(call[q].newcursor) < parse(call[p].newcursor)

\* the flat record of a document: its leaves by path, the top-level __id
\* under KEY
FlatRecord(x) ==
    LET leaves == flatten(x)
        paths == {IF c = <<Key(ID_FIELD_API)>> THEN <<Key(ID_FIELD)>> ELSE c : c \in DOMAIN leaves}
    IN [c \in paths |-> leaves[IF c = <<Key(ID_FIELD)>> THEN <<Key(ID_FIELD_API)>> ELSE c]]

\* the document has a navigation link, that is, a repeat group
HasRepeatGroup(x) == \E c \in DOMAIN flatten(x) : c[Len(c)].suffix # ""

\* C14: a record without repeat group is handed to store_submission as its
\* flat record: the paths of its own leaves with their values, nothing added,
\* nothing removed, whatever the other records of the batch.
C14_PassThrough ==
    df.stage = "pruned" =>
        \A k \in 1..Len(response_data) :
            ~HasRepeatGroup(response_data[k]) => df.rows[k] = FlatRecord(response_data[k])

C16_AllRowsByKey ==
    submissions_df.stage \notin {"none", "read", "indexed"} =>
        LET rows == submissions_df.rows
            held == {i \in Ids : subs[i] # NoRow}
        IN /\ submissions_df.stage = "sorted"
           /\ ID_FIELD \notin submissions_df.columns
           /\ Len(rows) = Cardinality(held)
           /\ {rows[k] : k \in 1..Len(rows)} = {subs[i] : i \in held}
           /\ \A j, k \in 1..Len(rows) : j < k => rows[j].id < rows[k].id

\* the position in the batch of the record with this id
BatchPos(c, id) == CHOOSE n \in 1..Len(c.batch) : c.batch[n].id = id

\* the calls made for one record of the batch
PerRecord(evs) == {k \in 1..Len(evs) : evs[k].id # 0}

\* C17: in every invocation, running, completed or failed, the cursor is read
\* first and before the table is fetched; the calls for the records come in
\* batch order; every store_attachment for a record comes before its
\* store_submission; store_metadata comes after every call made for a record;
\* and so a submission stored while attachments are offloaded has every
\* existing attachment of its listing in the attachment store.
C17_SideEffectOrder ==
    \A p \in Procs :
        LET c == call[p]
            t == c.trace
        IN /\ \A k \in 1..Len(t) :
                /\ t[k].op = "get_metadata" <=> k = 1
                /\ t[k].op = "get_table" <=> k = 2
           /\ \A k \in PerRecord(t) :
                k + 1 \in PerRecord(t) =>
                    BatchPos(c, t[k].id) <= BatchPos(c, t[k + 1].id)
           /\ \A k \in 1..Len(t) : k > 2 /\ k \notin PerRecord(t) => k + 1 \notin PerRecord(t)
           /\ \A j, k \in 1..Len(t) :
                /\ t[k].op = "store_submission"
                /\ t[j].op = "store_attachment"
                /\ t[j].id = t[k].id
                => j < k
           /\ \A m \in 1..Len(t) :
                t[m].op = "store_metadata" => \A k \in PerRecord(t) : k < m
           /\ \A k \in 1..Len(t) :
                /\ t[k].op = "store_submission"
                /\ WantAttachments(c.att_dest, c.batch[BatchPos(c, t[k].id)])
                => \A n \in 1..Len(platform[t[k].id].alist) :
                      platform[t[k].id].alist[n].exists =>
                          /\ <<t[k].id, platform[t[k].id].alist[n].name>> \in atts[c.att_dest]
                          /\ \E j \in 1..(k - 1) :
                                t[j] = Ev("store_attachment", c.att_dest, t[k].id,
                                          platform[t[k].id].alist[n].name)

\* a cycle that stored two submissions, attachments among them, and then the
\* cursor
C17_Witness ==
    \E p \in Procs :
        /\ call[p].pc = "done"
        /\ call[p].outcome = "ok"
        /\ Len(call[p].result) = 2
        /\ {"store_attachment", "store_submission", "store_metadata"}
              \subseteq Ops(call[p].trace)

\* the invocation has made this call, whether it returned or raised
Called(c, op) == op \in Ops(c.trace) \/ c.failedAt = op

\* C18: in every invocation store_metadata is called at most once, and exactly
\* when the loop ran to its end and the candidate differs from the cursor
\* read at the start; set_data_timezone is called exactly when the cursor
\* was persisted, and after it; when the candidate equals that cursor neither
\* call is made.
C18_CursorAndTimezone ==
    \A p \in Procs :
        LET c == call[p]
            t == c.trace
            persisted == {k \in 1..Len(t) : t[k].op = "store_metadata"}
            tagged == {k \in 1..Len(t) : t[k].op = "set_data_timezone"}
            looped == c.batch # <<>> /\ c.idx > Len(c.batch)
        IN /\ Cardinality(persisted) <= 1
           /\ c.failedAt = "store_metadata" => persisted = {}
           /\ \A k \in persisted : t[k].name = CURSOR_METADATA_ID /\ meta = c.newcursor
           /\ Called(c, "store_metadata") => looped /\ c.newcursor # c.cursor
           /\ c.pc \in {"tz", "done"} /\ looped /\ c.newcursor # c.cursor
                => Called(c, "store_metadata")
           /\ Called(c, "set_data_timezone") => persisted # {}
           /\ c.pc = "done" /\ persisted # {} => Called(c, "set_data_timezone")
           /\ \A k \in tagged : k = Len(t) /\ k - 1 \in persisted
           /\ c.newcursor = c.cursor =>
                ~Called(c, "store_metadata") /\ ~Called(c, "set_data_timezone")

\* a cycle that persisted its cursor and then tagged the timezone
C18_Witness ==
    \E p \in Procs :
        LET t == call[p].trace IN
        /\ call[p].pc = "done"
        /\ call[p].outcome = "ok"
        /\ Len(t) >= 2
        /\ t[Len(t) - 1].op = "store_metadata"
        /\ t[Len(t)].op = "set_data_timezone"
        /\ call[p].cursor # Null

\* C19: when the server's timestamps strictly increase, the filter is exact
\* and sync_data is called with include_rejected = true, one call after the
\* other, each succeeding or failing at any step, then every submission on
\* the server whose last_touched is at or before the stored cursor is in
\* storage with its current content.
C19_NoLoss ==
    \A i \in Ids :
        /\ platform[i] # NoRec
        /\ Truthy(meta)
        /\ parse(LastTouched(Row(i))) <= parse(meta)
        => subs[i] = Row(i)

\* an edited submission is in storage with its current content, the cursor at
\* its last_touched
C19_Witness ==
    /\ Observable
    /\ Truthy(meta)
    /\ \E i \in Ids :
         /\ platform[i] # NoRec
         /\ platform[i].ver = 2
         /\ LastTouched(Row(i)) = meta
         /\ subs[i] = Row(i)

\* the invocation before p's returned normally, with the flags p was called
\* with, and the server has received nothing since
Resync(p) == call[p].pc # "idle" /\ prev.kind \in {"ok", "ok_empty"}

\* C20: a sync_data called right after a successful one, with the same flags
\* and the server unchanged, makes no store_submission, store_attachment,
\* store_metadata or set_data_timezone call, leaves storage and cursor as
\* they were, and returns the empty list (unless a call it makes to storage
\* or to the server raises).
C20_ResyncIsNoOp ==
    \A p \in Procs :
        Resync(p) =>
            LET c == call[p] IN
            /\ c.flags = prev.flags
            /\ Writes(c.trace) = {}
            /\ "set_data_timezone" \notin Ops(c.trace)
            /\ Snapshot(subs, atts, meta, tz) = prev.expected
            /\ c.result = <<>>
            /\ c.pc = "done" =>
                  \/ c.outcome = "ok"
                  \/ c.failedAt \in {"get_metadata", "get_table", "query_submission"}

\* the second of two cycles returned, having fetched the record at the cursor
\* again and skipped it, with attachments among what the first one stored
C20_Witness ==
    \E p \in Procs :
        /\ Resync(p)
        /\ call[p].pc = "done"
        /\ call[p].outcome = "ok"
        /\ call[p].batch # <<>>
        /\ Truthy(meta)
        /\ \E s \in Stores : atts[s] # {}
====
